---- MODULE Spec2Model ----
(***************************************************************************)
(* Model of the workflow synthesis pipeline of                             *)
(* llm_agent/app/services/ai_service.py.                                   *)
(*                                                                         *)
(* JSON values are modelled as follows.  A dict is a function whose domain *)
(* is the set of keys it carries (a TLA+ record); an absent key is a key   *)
(* outside the domain.  A list is a sequence.  A dict whose iteration      *)
(* order matters (the connections map) is a sequence of entries            *)
(* [src |-> key, edges |-> value] with pairwise distinct keys, in          *)
(* insertion order.  JSON null is Null, a number n is Num(n); NotADict is   *)
(* a JSON array, standing for any non-empty value that is not a dict, and  *)
(* NotAGraph stands for such a value where a whole graph is expected.      *)
(***************************************************************************)
EXTENDS Integers, Sequences, FiniteSets, TLC

VARIABLES
    san_pc,            \* sanitize_connections harness: "build" | "done"
    san_connections,   \* argument connections of sanitize_connections
    san_nodes,         \* argument nodes of sanitize_connections
    san_out,           \* value returned by sanitize_connections
    val_pc,            \* ensure_valid_workflow harness: "start" | "once" | "twice"
    val_in,            \* argument workflow_json of the first call
    val_out,           \* outcome of ensure_valid_workflow(val_in)
    val_out2,          \* outcome of ensure_valid_workflow on the graph of val_out
    val_r,             \* response to the inference call of the first call, if made
    mod_pc,            \* modernize_code_nodes harness: "start" | "done"
    mod_in,            \* argument workflow_json of modernize_code_nodes
    mod_out,           \* outcome of modernize_code_nodes(mod_in)
    rev_pc,            \* validate_with_ai harness: "start" | "reviewed" | "repaired"
    rev_in,            \* argument workflow_json of validate_with_ai
    rev_r,             \* response to the call the function under test makes
    rev_rr,            \* response to the repair call validate_with_ai makes, if any
    rev_out,           \* value returned by the function under test
    pc,                \* generate_workflow: the stage the run is in
    raw_args,          \* local raw_args
    workflow_json,     \* local workflow_json
    validated,         \* local validated
    enhanced,          \* local enhanced
    returned,          \* the graph returned to the caller
    errors,            \* number of RuntimeError raised to the caller
    rebuilt,           \* TRUE once the except ValueError branch has been entered
    calls,             \* completion-service calls issued so far, by purpose
    struct_failures,   \* number of ValueError raised by ensure_valid_workflow
    all_empty          \* TRUE while every response received so far had no content

san_vars == <<san_pc, san_connections, san_nodes, san_out>>
val_vars == <<val_pc, val_in, val_out, val_out2, val_r>>
mod_vars == <<mod_pc, mod_in, mod_out>>
rev_vars == <<rev_pc, rev_in, rev_r, rev_rr, rev_out>>
gen_vars == <<pc, raw_args, workflow_json, validated, enhanced, returned, errors,
              rebuilt, calls, struct_failures, all_empty>>
vars == <<san_vars, val_vars, mod_vars, gen_vars, rev_vars>>

(***************************************************************************)
(* Bounds of the explored inputs.                                          *)
(***************************************************************************)
MaxLinks == 3        \* links of a whole connections map
MaxNodes == 3        \* nodes of a graph handed to ensure_valid_workflow

(***************************************************************************)
(* JSON helpers.                                                           *)
(***************************************************************************)
Null == [null |-> TRUE]
Num(n) == [num |-> n]
NotADict == << [nondict |-> TRUE] >>
EmptyDict == <<>>
\* a JSON document that is not an object, where a graph is expected
NotAGraph == [nondict |-> TRUE]
\* a local variable that has not been assigned yet
Unset == [unset |-> TRUE]

\* dict.get(k, default)
Get(d, k, default) == IF k \in DOMAIN d THEN d[k] ELSE default

\* dict.setdefault(k, v), as the dict it leaves behind
SetDefault(d, k, v) == IF k \in DOMAIN d THEN d ELSE d @@ (k :> v)

\* d[k] = v, as the dict it leaves behind
Put(d, k, v) == [x \in DOMAIN d \cup {k} |-> IF x = k THEN v ELSE d[x]]

\* del d[k]
Del(d, k) == [x \in DOMAIN d \ {k} |-> d[x]]

RECURSIVE Flatten(_)
Flatten(ss) == IF ss = <<>> THEN <<>> ELSE Head(ss) \o Flatten(Tail(ss))

(***************************************************************************)
(* Names used by the explored inputs.                                      *)
(***************************************************************************)
AllNames == {"A", "B", "C"}

Link(n) == [node |-> n, type |-> "main", index |-> 0]

(***************************************************************************)
(* sanitize_connections                                                    *)
(***************************************************************************)
\* valid_names = {n["name"] for n in nodes}
valid_names(nodes) == {nodes[i].name : i \in DOMAIN nodes}

\* dst = link.get("node"); dst in valid_names and dst != src
\* (a link without the key has dst None, which is in no set of names)
KeepLink_NoValidCheck(link, src, valid) ==
    "node" \in DOMAIN link /\ link.node # src

KeepLink(link, src, valid) ==
    "node" \in DOMAIN link /\ link.node \in valid /\ link.node # src

clean_branch(branch, src, valid) ==
    SelectSeq(branch, LAMBDA link : KeepLink(link, src, valid))

\* the branches of main, each cleaned, the empty ones dropped
clean_main(main, src, valid) ==
    SelectSeq([i \in DOMAIN main |-> clean_branch(main[i], src, valid)],
              LAMBDA b : b # <<>>)

\* first loop: for src, edges in connections.items()
RECURSIVE FirstPass(_, _, _)
FirstPass(connections, valid, out) ==
    IF connections = <<>> THEN out
    ELSE LET e == Head(connections)
             cm == clean_main(Get(e.edges, "main", <<>>), e.src, valid)
         IN  IF e.src \notin valid
             THEN FirstPass(Tail(connections), valid, out)
             ELSE IF cm # <<>>
                  THEN FirstPass(Tail(connections), valid,
                                 Append(out, [src |-> e.src, edges |-> [main |-> cm]]))
                  ELSE FirstPass(Tail(connections), valid, out)

InOut(out, name) == \E i \in DOMAIN out : out[i].src = name
IndexOf(out, name) == CHOOSE i \in DOMAIN out : out[i].src = name

\* for b2 in out[dst].get("main", []): if any(l2.get("node") == src for l2 in b2):
\*     out[dst]["main"] = [[l2 for l2 in bb if l2.get("node") != src] for bb in out[dst]["main"]]
\* l2.get("node") == name
LinkTargets(l2, name) == "node" \in DOMAIN l2 /\ l2.node = name

RemoveBackEdge_Noop(out, dst, src) == out

\* the link src -> dst removed from the entry of src, instead of the link
\* dst -> src from the entry of dst
RemoveBackEdge_Forward(out, dst, src) ==
    LET k == IndexOf(out, dst)
        s == IndexOf(out, src)
        main == Get(out[k].edges, "main", <<>>)
        hit == \E b \in DOMAIN main : \E j \in DOMAIN main[b] :
                   LinkTargets(main[b][j], src)
        own == Get(out[s].edges, "main", <<>>)
        filtered == [b \in DOMAIN own |->
                        SelectSeq(own[b], LAMBDA l2 : ~LinkTargets(l2, dst))]
    IN  IF hit
        THEN [out EXCEPT ![s] = [src |-> src, edges |-> Put(out[s].edges, "main", filtered)]]
        ELSE out

\* every link of dst removed once dst links back to src
RemoveBackEdge_WholeEntry(out, dst, src) ==
    LET k == IndexOf(out, dst)
        main == Get(out[k].edges, "main", <<>>)
        hit == \E b \in DOMAIN main : \E j \in DOMAIN main[b] :
                   LinkTargets(main[b][j], src)
    IN  IF hit
        THEN [out EXCEPT ![k] = [src |-> dst,
                                 edges |-> Put(out[k].edges, "main",
                                               [b \in DOMAIN main |-> <<>>])]]
        ELSE out

RemoveBackEdge(out, dst, src) ==
    LET k == IndexOf(out, dst)
        main == Get(out[k].edges, "main", <<>>)
        hit == \E b \in DOMAIN main : \E j \in DOMAIN main[b] :
                   LinkTargets(main[b][j], src)
        filtered == [b \in DOMAIN main |->
                        SelectSeq(main[b], LAMBDA l2 : ~LinkTargets(l2, src))]
    IN  IF hit
        THEN [out EXCEPT ![k] = [src |-> dst, edges |-> Put(out[k].edges, "main", filtered)]]
        ELSE out

\* for link in branch (over the branches of src as they are when src is reached):
\*     dst = link.get("node"); if dst in out: ...
RECURSIVE BreakLinks(_, _, _)
BreakLinks(out, src, links) ==
    IF links = <<>> THEN out
    ELSE LET link == Head(links)
         IN  IF "node" \in DOMAIN link /\ InOut(out, link.node)
             THEN BreakLinks(RemoveBackEdge(out, link.node, src), src, Tail(links))
             ELSE BreakLinks(out, src, Tail(links))

\* second loop: for src, edges in list(out.items())
RECURSIVE SecondPass(_, _)
SecondPass(out, i) ==
    IF i > Len(out) THEN out
    ELSE SecondPass(BreakLinks(out, out[i].src,
                               Flatten(Get(out[i].edges, "main", <<>>))),
                    i + 1)

sanitize_connections(connections, nodes) ==
    SecondPass(FirstPass(connections, valid_names(nodes), <<>>), 1)

(***************************************************************************)
(* Strings.  A node type is one of the strings below; str.lower() and the  *)
(* substring test "x in s" are given by what they yield on these strings.  *)
(***************************************************************************)
HTTP_REQUEST == "n8n-nodes-base.httpRequest"
CODE_TYPE == "n8n-nodes-base.code"
FUNCTION_TYPE == "n8n-nodes-base.function"

\* s.lower()
Lower(s) ==
    CASE s = "n8n-nodes-base.Webhook" -> "n8n-nodes-base.webhook"
      [] s = "n8n-nodes-base.scheduleTrigger" -> "n8n-nodes-base.scheduletrigger"
      [] s = "n8n-nodes-base.httpRequest" -> "n8n-nodes-base.httprequest"
      [] s = "n8n-nodes-base.Code" -> "n8n-nodes-base.code"
      [] s = "n8n-nodes-base.functionItem" -> "n8n-nodes-base.functionitem"
      [] OTHER -> s

\* the keywords of the source that occur in s, case-sensitively
Keywords(s) ==
    CASE s = "n8n-nodes-base.cron" -> {"cron"}
      [] s = "n8n-nodes-base.webhook" -> {"webhook"}
      [] s = "n8n-nodes-base.scheduleTrigger" -> {"schedule"}
      [] s = "n8n-nodes-base.scheduletrigger" -> {"schedule", "trigger"}
      [] s = "n8n-nodes-base.code" -> {"code"}
      [] s = "n8n-nodes-base.function" -> {"function"}
      [] s = "n8n-nodes-base.functionItem" -> {"function"}
      [] s = "n8n-nodes-base.functionitem" -> {"function"}
      [] OTHER -> {}

\* x in s
Contains(s, x) == x \in Keywords(s)

(***************************************************************************)
(* A response of the completion service, as the caller sees it:            *)
(*   kind "error"   the call raises;                                       *)
(*   kind "none"    message.content is None;                               *)
(*   kind "empty"   the content is the empty string;                       *)
(*   kind "blank"   the content is whitespace only;                        *)
(*   kind "garbage" the content is text that json.loads rejects;           *)
(*   kind "json"    the content is a JSON document, val what it parses to. *)
(***************************************************************************)
Resp(k) == [kind |-> k]
JsonResp(v) == [kind |-> "json", val |-> v]

\* not content or not content.strip()
NoContent(r) == r.kind \in {"none", "empty", "blank"}

(***************************************************************************)
(* reorder_nodes_for_triggers                                              *)
(***************************************************************************)
TRIGGER_WORDS == {"cron", "webhook", "schedule", "trigger"}

\* any(x in n.get("type", "").lower() for x in ["cron", "webhook", "schedule", "trigger"])
is_trigger(n) ==
    \E x \in TRIGGER_WORDS : Contains(Lower(Get(n, "type", "")), x)

\* others first: a plausible slip of the concatenation
reorder_nodes_OthersFirst(nodes) ==
    LET triggers == SelectSeq(nodes, is_trigger)
        others == SelectSeq(nodes, LAMBDA n : \A i \in DOMAIN triggers : triggers[i] # n)
    IN  others \o triggers

\* triggers = [n for n in nodes if ...]; others = [n for n in nodes if n not in triggers]
\* ("not in" compares the dicts by value)
reorder_nodes_for_triggers(nodes) ==
    LET triggers == SelectSeq(nodes, is_trigger)
        others == SelectSeq(nodes, LAMBDA n : \A i \in DOMAIN triggers : triggers[i] # n)
    IN  triggers \o others

(***************************************************************************)
(* generate_connections_with_ai: {} on any exception and on no content,    *)
(* what the content parses to otherwise.                                   *)
(***************************************************************************)
generate_connections_with_ai(r, nodes) ==
    IF \E i \in DOMAIN nodes : "name" \notin DOMAIN nodes[i] THEN <<>>
    ELSE IF r.kind = "error" THEN <<>>
    ELSE IF NoContent(r) THEN <<>>
    ELSE IF r.kind = "garbage" THEN <<>>
    ELSE r.val

(***************************************************************************)
(* ensure_valid_workflow                                                   *)
(***************************************************************************)
\* f"AI-{abs(hash(prompt)) % 10**8}": one string per prompt within a process
AiId(prompt) ==
    CASE prompt = "post new orders to chat" -> "AI-40213377"
      [] OTHER -> "AI-7"

\* the body of the loop over enumerate(nodes), for the node at index i (from 0)
enrich_node(node, i) ==
    LET n1 == SetDefault(node, "parameters", EmptyDict)
        n2 == SetDefault(n1, "typeVersion", Num(1))
        n3 == SetDefault(n2, "position", <<200 + (i * 220), 300>>)
    IN  IF "type" \in DOMAIN n3 /\ n3.type = HTTP_REQUEST
        THEN Put(n3, "parameters", SetDefault(n3.parameters, "responseFormat", "json"))
        ELSE n3

\* node["parameters"].setdefault(...) on a node whose parameters is None raises
enrich_raises(node) ==
    /\ "type" \in DOMAIN node /\ node.type = HTTP_REQUEST
    /\ "parameters" \in DOMAIN node /\ node.parameters = Null

\* every node linked to its predecessor: the chain built backwards
fallback_chain_Reversed(nodes) ==
    [i \in 1..(Len(nodes) - 1) |->
        [src |-> nodes[i + 1].name, edges |-> [main |-> << <<Link(nodes[i].name)>> >>]]]

\* node_names[i] -> node_names[i + 1] for i in range(len(node_names) - 1)
fallback_chain(nodes) ==
    [i \in 1..(Len(nodes) - 1) |->
        [src |-> nodes[i].name, edges |-> [main |-> << <<Link(nodes[i + 1].name)>> >>]]]

\* a dict comprehension keeps one entry per key, at the place of its first
\* occurrence and with the value of its last
RECURSIVE DictOf(_, _)
DictOf(entries, out) ==
    IF entries = <<>> THEN out
    ELSE LET e == Head(entries)
         IN  IF InOut(out, e.src)
             THEN DictOf(Tail(entries), [out EXCEPT ![IndexOf(out, e.src)] = e])
             ELSE DictOf(Tail(entries), Append(out, e))

\* the settings record of workflow_json.update
settings_of(wf) ==
    LET st == Get(wf, "settings", EmptyDict)
    IN  [timezone |-> Get(st, "timezone", "UTC"),
         executionOrder |-> Get(st, "executionOrder", "sequential"),
         saveManualExecutions |-> Get(st, "saveManualExecutions", TRUE)]

\* the test of nodes alone
structure_missing_NodesOnly(wf) ==
    "nodes" \notin DOMAIN wf \/ wf.nodes = <<>>

\* not name or not nodes
structure_missing(wf) ==
    \/ "name" \notin DOMAIN wf \/ wf.name = ""
    \/ "nodes" \notin DOMAIN wf \/ wf.nodes = <<>>

\* workflow_json.get("id") or f"AI-..."
id_of(wf, prompt) ==
    IF "id" \in DOMAIN wf /\ wf.id # "" THEN wf.id ELSE AiId(prompt)

\* Lines 191-201: the connections handed to sanitize_connections, and whether
\* the inference call was made
needs_inference(wf) ==
    LET connections == Get(wf, "connections", <<>>)
    IN  connections = NotADict \/ connections = <<>>

resolve_connections(wf, nodes, r) ==
    IF needs_inference(wf)
    THEN LET inferred == generate_connections_with_ai(r, nodes)
         IN  IF inferred = <<>> THEN DictOf(fallback_chain(nodes), <<>>) ELSE inferred
    ELSE wf.connections

\* The whole function.  r is the response of the completion service to the
\* inference call, used only if that call is made.  The result names the
\* exception raised ("none" when the function returns), the graph, and the
\* number of inference calls made.
ensure_valid_workflow(wf, prompt, r) ==
    IF wf = NotAGraph THEN [exc |-> "AttributeError", wf |-> wf, calls |-> 0]
    ELSE IF structure_missing(wf) THEN [exc |-> "ValueError", wf |-> wf, calls |-> 0]
    ELSE
    LET reordered == reorder_nodes_for_triggers(wf.nodes)
    IN  IF \E i \in DOMAIN reordered : enrich_raises(reordered[i])
        THEN [exc |-> "AttributeError", wf |-> wf, calls |-> 0]
        ELSE IF \E i \in DOMAIN reordered : "name" \notin DOMAIN reordered[i]
        THEN [exc |-> "KeyError", wf |-> wf, calls |-> 0]
        ELSE
        LET nodes == [i \in DOMAIN reordered |-> enrich_node(reordered[i], i - 1)]
            updated ==
                Put(Put(Put(Put(Put(wf, "nodes", nodes),
                                "id", id_of(wf, prompt)),
                            "active", Get(wf, "active", FALSE)),
                        "tags", Get(wf, "tags", <<"ai-generated">>)),
                    "settings", settings_of(wf))
            connections == resolve_connections(updated, nodes, r)
            made == IF needs_inference(updated) THEN 1 ELSE 0
        IN  IF connections = NotADict
            THEN [exc |-> "AttributeError", wf |-> updated, calls |-> made]
            ELSE [exc |-> "none",
                  wf |-> Put(updated, "connections",
                             sanitize_connections(connections, nodes)),
                  calls |-> made]

(***************************************************************************)
(* Code text.  The source looks at a code body only through: whether it is *)
(* empty, whether it is blank once stripped, whether it is a JSON document *)
(* (looks_like_json_string), and which of a few tokens occur in it.  A     *)
(* text is the record of these observations: shape is "empty", "blank",    *)
(* "json" (a brace- or bracket-wrapped text that json.loads accepts) or    *)
(* "text" (anything else), has is the set of tokens that occur in it, id   *)
(* tells apart texts that agree on the rest, tail is TRUE once the         *)
(* pass-through statement has been appended.                               *)
(***************************************************************************)
Text(id, shape, has) == [id |-> id, shape |-> shape, has |-> has, tail |-> FALSE]
EmptyText == Text("", "empty", {})

LEGACY_TOKENS == {"$json", "$input.item", "$item", "[0].json"}
BAD_TOKENS == {"$input.item", "$item", "[0].json"}

\* bool(s) of a string
Truthy(t) == t.shape # "empty"
\* not s.strip()
IsBlank(t) == t.shape \in {"empty", "blank"}
\* s.strip()
Strip(t) == IF IsBlank(t) THEN EmptyText ELSE t
\* tok in s
Has(t, tok) == tok \in t.has
\* s + "\nreturn $input.all();"
AppendReturn(t) ==
    [id |-> t.id, shape |-> "text", has |-> t.has \cup {"return", "$input.all()"},
     tail |-> TRUE]

looks_like_json_string(t) == Strip(t).shape = "json"

\* "const items = $input.all();\n// Generated fallback: pass-through\nreturn items;"
FallbackRails == Text("fallback: pass-through", "text", {"return", "$input.all()"})
\* "const items = $input.all();\nreturn items;"
FallbackExcept == Text("fallback", "text", {"return", "$input.all()"})

(***************************************************************************)
(* generate_code_node_js.  r is the response of the completion service:    *)
(* kind "error", kind "none" (content None) or kind "text" with the text.  *)
(***************************************************************************)
CodeResp(t) == [kind |-> "text", text |-> t]

generate_code_node_js(r) ==
    IF r.kind \in {"error", "none"} THEN FallbackExcept
    ELSE LET js_code == Strip(r.text)
         IN  IF ~Truthy(js_code) THEN FallbackExcept
             ELSE IF ~Has(js_code, "return") \/ ~Has(js_code, "$input.all()")
                  THEN FallbackRails
                  ELSE js_code

(***************************************************************************)
(* modernize_code_nodes                                                    *)
(***************************************************************************)
\* "function" in node_type or "code" in node_type
is_scripting(node) ==
    LET node_type == Lower(Get(node, "type", ""))
    IN  Contains(node_type, "function") \/ Contains(node_type, "code")

\* params.get("jsCode") or params.get("functionCode") or params.get("code") or ""
first_code(params) ==
    IF "jsCode" \in DOMAIN params /\ Truthy(params.jsCode) THEN params.jsCode
    ELSE IF "functionCode" \in DOMAIN params /\ Truthy(params.functionCode)
         THEN params.functionCode
    ELSE IF "code" \in DOMAIN params /\ Truthy(params.code) THEN params.code
    ELSE EmptyText

\* the body left in js_code before generation: "" if it looks like JSON
body_before_generation(params) ==
    IF looks_like_json_string(first_code(params)) THEN EmptyText ELSE first_code(params)

\* legacy or not js_code.strip()
needs_generation(params) ==
    LET js_code == body_before_generation(params)
    IN  (\E t \in LEGACY_TOKENS : Has(js_code, t)) \/ IsBlank(js_code)

\* params = node.setdefault("parameters", {}); params.get(...) raises on None
modernize_raises(node) ==
    is_scripting(node) /\ "parameters" \in DOMAIN node /\ node.parameters = Null

\* the body of the loop for one scripting node; r answers the generation call
modernize_node(node, r) ==
    LET n1 == IF Lower(Get(node, "type", "")) # CODE_TYPE
              THEN Put(node, "type", CODE_TYPE) ELSE node
        n2 == SetDefault(n1, "parameters", EmptyDict)
        params == n2.parameters
        p1 == SetDefault(Del(Del(params, "functionCode"), "code"), "language", "JavaScript")
        js1 == IF needs_generation(params)
               THEN generate_code_node_js(r) ELSE body_before_generation(params)
        js2 == IF ~Has(js1, "return") THEN AppendReturn(js1) ELSE js1
    IN  Put(n2, "parameters", Put(p1, "jsCode", js2))

\* The whole function.  gens[i] answers the generation call made for node i.
\* The result names the exception raised ("none" when the function
\* returns), the graph, and the number of generation calls made.
modernize_code_nodes(wf, gens) ==
    IF wf = NotAGraph THEN [exc |-> "AttributeError", wf |-> wf, calls |-> 0]
    ELSE
    LET nodes == Get(wf, "nodes", <<>>)
    IN  IF \E i \in DOMAIN nodes : modernize_raises(nodes[i])
        THEN [exc |-> "AttributeError", wf |-> wf, calls |-> 0]
        ELSE [exc |-> "none",
              wf |-> IF "nodes" \in DOMAIN wf
                     THEN Put(wf, "nodes",
                              [i \in DOMAIN nodes |->
                                  IF is_scripting(nodes[i])
                                  THEN modernize_node(nodes[i], gens[i]) ELSE nodes[i]])
                     ELSE wf,
              calls |-> Cardinality({ i \in DOMAIN nodes :
                            /\ is_scripting(nodes[i])
                            /\ needs_generation(Get(nodes[i], "parameters", EmptyDict)) })]

(***************************************************************************)
(* repair_json_with_ai, validate_with_ai, lint_code_nodes                  *)
(***************************************************************************)
Scaffold_WithNode ==
    [name |-> "AI Generated Workflow",
     nodes |-> <<[name |-> "Start", type |-> "n8n-nodes-base.cron"]>>,
     connections |-> <<>>]

\* {"name": "AI Generated Workflow", "nodes": [], "connections": {}}
Scaffold == [name |-> "AI Generated Workflow", nodes |-> <<>>, connections |-> <<>>]

\* {} on any exception, as generate_connections_with_ai has it
repair_json_with_ai_EmptyObject(r) == IF r.kind = "json" THEN r.val ELSE EmptyDict

\* the parsed content, the scaffold on any exception
repair_json_with_ai(r) == IF r.kind = "json" THEN r.val ELSE Scaffold

\* r answers the review call, rr the repair call made when r does not parse
validate_with_ai(wf, r, rr) ==
    IF r.kind = "error" THEN wf
    ELSE IF NoContent(r) THEN wf
    ELSE IF r.kind = "json" THEN r.val
    ELSE repair_json_with_ai(rr)

\* code = node.get("parameters", {}).get("jsCode") or node.get("parameters", {}).get("code", "")
lint_code(params) ==
    IF "jsCode" \in DOMAIN params /\ Truthy(params.jsCode) THEN params.jsCode
    ELSE Get(params, "code", EmptyText)

\* the loop of lint_code_nodes: "raises", "flagged" (the graph is sent to
\* validate_with_ai) or "clean"
RECURSIVE lint_scan(_)
lint_scan(nodes) ==
    IF nodes = <<>> THEN "clean"
    ELSE LET node == Head(nodes)
         IN  IF Get(node, "type", "") \in {CODE_TYPE, FUNCTION_TYPE}
             THEN IF Get(node, "parameters", EmptyDict) = Null THEN "raises"
                  ELSE LET code == lint_code(Get(node, "parameters", EmptyDict))
                       IN  IF \/ looks_like_json_string(code)
                              \/ \E bad \in BAD_TOKENS : Has(code, bad)
                           THEN "flagged"
                           ELSE lint_scan(Tail(nodes))
             ELSE lint_scan(Tail(nodes))

lint_outcome(wf) ==
    IF wf = NotAGraph THEN "raises" ELSE lint_scan(Get(wf, "nodes", <<>>))

(***************************************************************************)
(* generate_workflow                                                       *)
(***************************************************************************)
NoCalls == [primary |-> 0, repair |-> 0, rebuild |-> 0, infer |-> 0, review |-> 0,
            codegen |-> 0]

\* A response to the primary call: the call raises (kind "error"), or a
\* message with fc, the arguments of its function_call (kind "none": no
\* function_call), and its content.
Message(fc, content) == [kind |-> "message", fc |-> fc, content |-> content]

\* raw_args as lines 405-409 leave it: "raises" when content is None and is
\* stripped, a response of kind "empty", "garbage" or "json" otherwise
raw_args_of(r) ==
    IF ~NoContent(r.fc) THEN r.fc
    ELSE IF r.content.kind = "none" THEN Resp("raises")
    ELSE IF NoContent(r.content) THEN Resp("empty")
    ELSE r.content

\* what follows a ValueError of ensure_valid_workflow, were the handler
\* entered again
after_value_error_Again(was_rebuilt) == "Rebuilding"

\* what follows a ValueError of ensure_valid_workflow: the first call sits
\* in the try block, the second in its except handler
after_value_error(was_rebuilt) == IF was_rebuilt THEN "Failed" ELSE "Rebuilding"

\* a lint pass repeated until it finds nothing to flag
after_lint_UntilClean(outcome) == IF outcome = "flagged" THEN "Linting" ELSE "Modernizing"

\* lines 450-451: whatever lint_code_nodes returns goes to modernize_code_nodes
after_lint(outcome) == "Modernizing"

(***************************************************************************)
(* Harness of sanitize_connections: a connections map is built source by   *)
(* source, branch by branch and link by link (sources in any order, every  *)
(* branch non-empty), the node list is drawn from SanNodeLists, then the   *)
(* function is applied.  With the second node list, C names no node.       *)
(***************************************************************************)
NameNode(n) == [name |-> n]
SanNodeLists ==
    { <<NameNode("A"), NameNode("B"), NameNode("C")>>,
      <<NameNode("B"), NameNode("A")>> }

SanLinks == {Link(n) : n \in AllNames}

Sources(connections) == {connections[i].src : i \in DOMAIN connections}
MainOf(e) == Get(e.edges, "main", <<>>)
LinkCount(connections) ==
    Len(Flatten([i \in DOMAIN connections |-> Flatten(MainOf(connections[i]))]))

SanIdle ==
    /\ san_pc = "idle"
    /\ san_connections = <<>>
    /\ san_nodes = <<>>
    /\ san_out = <<>>

ValIdle ==
    /\ val_pc = "idle"
    /\ val_in = EmptyDict
    /\ val_out = EmptyDict
    /\ val_out2 = EmptyDict
    /\ val_r = Unset

ModIdle ==
    /\ mod_pc = "idle"
    /\ mod_in = EmptyDict
    /\ mod_out = EmptyDict

RevIdle ==
    /\ rev_pc = "idle"
    /\ rev_in = EmptyDict
    /\ rev_r = Unset /\ rev_rr = Unset
    /\ rev_out = EmptyDict

GenIdle ==
    /\ pc = "idle"
    /\ raw_args = Unset /\ workflow_json = Unset /\ validated = Unset
    /\ enhanced = Unset /\ returned = Unset
    /\ errors = 0 /\ rebuilt = FALSE /\ calls = NoCalls
    /\ struct_failures = 0 /\ all_empty = TRUE

SanInit ==
    /\ san_pc = "build"
    /\ san_connections = <<>>
    /\ san_nodes \in SanNodeLists
    /\ san_out = <<>>
    /\ ValIdle /\ ModIdle /\ GenIdle /\ RevIdle

\* a new source entry, without a main port yet
SanAddSource ==
    /\ san_pc = "build"
    /\ \E s \in AllNames \ Sources(san_connections) :
           san_connections' = Append(san_connections, [src |-> s, edges |-> EmptyDict])
    /\ UNCHANGED <<san_pc, san_nodes, san_out, val_vars, mod_vars, gen_vars, rev_vars>>

\* a new branch, holding one link, on the main port of the last source
SanAddBranch ==
    /\ san_pc = "build"
    /\ san_connections # <<>>
    /\ LinkCount(san_connections) < MaxLinks
    /\ LET k == Len(san_connections)
           e == san_connections[k]
       IN  \E l \in SanLinks :
               san_connections' =
                   [san_connections EXCEPT ![k] =
                       [src |-> e.src, edges |-> Put(e.edges, "main", Append(MainOf(e), <<l>>))]]
    /\ UNCHANGED <<san_pc, san_nodes, san_out, val_vars, mod_vars, gen_vars, rev_vars>>

\* one more link in the last branch of the last source
SanAddLink ==
    /\ san_pc = "build"
    /\ san_connections # <<>>
    /\ LinkCount(san_connections) < MaxLinks
    /\ LET k == Len(san_connections)
           e == san_connections[k]
           b == Len(MainOf(e))
       IN  /\ b > 0
           /\ \E l \in SanLinks :
                  san_connections' =
                      [san_connections EXCEPT ![k] =
                          [src |-> e.src,
                           edges |-> Put(e.edges, "main",
                                         [MainOf(e) EXCEPT ![b] = Append(@, l)])]]
    /\ UNCHANGED <<san_pc, san_nodes, san_out, val_vars, mod_vars, gen_vars, rev_vars>>

SanApply ==
    /\ san_pc = "build"
    /\ san_out' = sanitize_connections(san_connections, san_nodes)
    /\ san_pc' = "done"
    /\ UNCHANGED <<san_connections, san_nodes, val_vars, mod_vars, gen_vars, rev_vars>>

SanNext == SanAddSource \/ SanAddBranch \/ SanAddLink \/ SanApply

SpecSan == SanInit /\ [][SanNext]_vars

(***************************************************************************)
(* Harness of ensure_valid_workflow: the graph is drawn from ValInputs,     *)
(* the function is applied to it and then to its own output, with any      *)
(* response of the completion service to each inference call.              *)
(***************************************************************************)
Prompt == "post new orders to chat"

NameSeq == <<"A", "B", "C", "D", "E">>

\* nodes as the model may return them, without their name
ValNodeTemplates ==
    { [type |-> "n8n-nodes-base.cron"],
      [type |-> "n8n-nodes-base.Webhook", parameters |-> [path |-> "orders"],
       typeVersion |-> Num(2), position |-> <<0, 0>>],
      [type |-> HTTP_REQUEST],
      [type |-> "n8n-nodes-base.set", parameters |-> Null, typeVersion |-> Null,
       position |-> Null],
      [type |-> HTTP_REQUEST, parameters |-> Null] }

\* the i-th node is named NameSeq[i]
WithNames(ts) == [i \in DOMAIN ts |-> ts[i] @@ ("name" :> NameSeq[i])]

ValNodeLists ==
    UNION { {WithNames(ts) : ts \in [1..n -> ValNodeTemplates]} : n \in 0..MaxNodes }

Entry(s, targets) ==
    [src |-> s, edges |-> [main |-> << [i \in DOMAIN targets |-> Link(targets[i])] >>]]

\* connections maps as the model may return them; Z names no node
ValConnections ==
    { NotADict,
      <<>>,
      <<Entry("A", <<"B">>)>>,
      <<Entry("A", <<"B">>), Entry("B", <<"A">>)>>,
      <<Entry("A", <<"Z">>)>> }

ValTopLevels ==
    { EmptyDict,
      [id |-> "wf-1", active |-> TRUE, tags |-> <<"orders">>,
       settings |-> [timezone |-> "Europe/Paris", callerPolicy |-> "any"]] }

ValNames == { EmptyDict, [name |-> ""], [name |-> "W"] }

ValInputs ==
    { nm @@ top @@ nd @@ cn :
        nm \in ValNames, top \in ValTopLevels,
        nd \in {EmptyDict} \cup {[nodes |-> ns] : ns \in ValNodeLists},
        cn \in {EmptyDict} \cup {[connections |-> c] : c \in ValConnections} }

\* responses of the completion service to the inference call
ValResponses ==
    { Resp("error"), Resp("none"), Resp("blank"), Resp("garbage"),
      JsonResp(<<>>),
      JsonResp(<<Entry("B", <<"A">>), Entry("A", <<"B", "Z">>)>>),
      JsonResp(NotADict) }

ValInit ==
    /\ val_pc = "start"
    /\ val_in \in ValInputs
    /\ val_out = EmptyDict
    /\ val_out2 = EmptyDict
    /\ val_r = Unset
    /\ SanIdle /\ ModIdle /\ GenIdle /\ RevIdle

ValFirst ==
    /\ val_pc = "start"
    /\ \E r \in ValResponses :
          LET res == ensure_valid_workflow(val_in, Prompt, r)
          IN  /\ val_out' = res
              /\ val_r' = IF res.calls = 1 THEN r ELSE Unset
    /\ val_pc' = "once"
    /\ UNCHANGED <<val_in, val_out2, san_vars, mod_vars, gen_vars, rev_vars>>

ValSecond ==
    /\ val_pc = "once"
    /\ val_out.exc = "none"
    /\ \E r \in ValResponses : val_out2' = ensure_valid_workflow(val_out.wf, Prompt, r)
    /\ val_pc' = "twice"
    /\ UNCHANGED <<val_in, val_out, val_r, san_vars, mod_vars, gen_vars, rev_vars>>

ValNext == ValFirst \/ ValSecond

SpecVal == ValInit /\ [][ValNext]_vars

(***************************************************************************)
(* Harness of modernize_code_nodes: a graph of one node drawn from         *)
(* ModNodes, alone, after a plain node, or before a second scripting node; *)
(* the function is applied with any response to each generation call.      *)
(***************************************************************************)
ModTokens == {"return", "$input.all()", "$json", "$item"}

JsTexts ==
    {Text("js", "empty", {}), Text("js", "blank", {})}
    \cup {Text("js", sh, h) : sh \in {"json", "text"}, h \in SUBSET ModTokens}

ModTypes ==
    {CODE_TYPE, FUNCTION_TYPE, "n8n-nodes-base.Code", "n8n-nodes-base.functionItem",
     HTTP_REQUEST}

ModLegacyKeys ==
    { EmptyDict,
      [functionCode |-> Text("fn", "text", {"$item"})],
      [functionCode |-> Text("fn", "text", {"return"})],
      [code |-> Text("cd", "json", {})],
      [code |-> Text("cd", "text", {}), language |-> "javaScript"] }

ModParams ==
    { js @@ lk : js \in {EmptyDict} \cup {[jsCode |-> t] : t \in JsTexts},
                 lk \in ModLegacyKeys }

ModNodes ==
    { [name |-> "A", type |-> ty, parameters |-> ps] : ty \in ModTypes, ps \in ModParams }
    \cup { [name |-> "A", type |-> ty] : ty \in ModTypes }
    \cup { [name |-> "A", type |-> ty, parameters |-> Null] : ty \in ModTypes }

PlainNode == [name |-> "P", type |-> "n8n-nodes-base.cron", parameters |-> EmptyDict]
LegacyNode ==
    [name |-> "L", type |-> FUNCTION_TYPE,
     parameters |-> [functionCode |-> Text("fn", "text", {"return", "$json"})]]

ModInputs ==
    { [name |-> "W", nodes |-> ns] :
        ns \in UNION { { <<n>>, <<PlainNode, n>>, <<n, LegacyNode>> } : n \in ModNodes } }

\* responses of the completion service to a generation call
GenResponses ==
    { [kind |-> "error"], [kind |-> "none"],
      CodeResp(Text("gen", "empty", {})),
      CodeResp(Text("gen", "blank", {})),
      CodeResp(Text("gen", "text", {"return", "$input.all()"})),
      CodeResp(Text("gen", "text", {"return", "$input.all()", "$json"})),
      CodeResp(Text("gen", "json", {"return", "$input.all()"})),
      CodeResp(Text("gen", "text", {"return"})),
      CodeResp(Text("gen", "text", {"$input.all()", "$item"})) }

ModInit ==
    /\ mod_pc = "start"
    /\ mod_in \in ModInputs
    /\ mod_out = EmptyDict
    /\ SanIdle /\ ValIdle /\ GenIdle /\ RevIdle

ModApply ==
    /\ mod_pc = "start"
    /\ \E gens \in [DOMAIN mod_in.nodes -> GenResponses] :
           mod_out' = modernize_code_nodes(mod_in, gens)
    /\ mod_pc' = "done"
    /\ UNCHANGED <<mod_in, san_vars, val_vars, gen_vars, rev_vars>>

ModNext == ModApply

SpecMod == ModInit /\ [][ModNext]_vars

(***************************************************************************)
(* generate_workflow, one action per stage.  Each action draws the         *)
(* responses of the completion service to the calls the stage makes.       *)
(***************************************************************************)
HttpA == [name |-> "A", type |-> HTTP_REQUEST]
HookB == [name |-> "B", type |-> "n8n-nodes-base.Webhook"]
CodeC ==
    [name |-> "C", type |-> CODE_TYPE,
     parameters |-> [jsCode |-> Text("js", "text", {"return", "$item"})]]
FnD ==
    [name |-> "D", type |-> FUNCTION_TYPE,
     parameters |-> [functionCode |-> Text("fn", "text", {"return", "$item"})]]

\* JSON documents the completion service may return where a graph is asked
GraphDocs ==
    { EmptyDict,
      [name |-> "W"],
      [name |-> "W", nodes |-> <<HttpA, HookB>>],
      [name |-> "W", nodes |-> <<HookB, CodeC>>,
       connections |-> <<Entry("B", <<"C", "Z">>), Entry("C", <<"B">>)>>],
      [name |-> "W", nodes |-> <<HookB, FnD>>],
      [name |-> "W",
       nodes |-> <<[name |-> "A", type |-> HTTP_REQUEST, parameters |-> Null]>>],
      [name |-> "W",
       nodes |-> <<[name |-> "A", type |-> FUNCTION_TYPE, parameters |-> Null]>>],
      NotAGraph }

DocResponses ==
    {Resp("error"), Resp("none"), Resp("empty"), Resp("garbage")}
    \cup {JsonResp(d) : d \in GraphDocs}

PrimaryResponses ==
    {Resp("error")}
    \cup {Message(fc, Resp("none")) : fc \in {Resp("garbage")} \cup {JsonResp(d) : d \in GraphDocs}}
    \cup {Message(fc, c) : fc \in {Resp("none"), Resp("empty")},
                           c \in DocResponses \ {Resp("error")}}

\* the response to the repair call, drawn only when r does not parse
RepairResponses(r) == IF r.kind = "garbage" THEN DocResponses ELSE {Resp("none")}

(***************************************************************************)
(* Harness of validate_with_ai and repair_json_with_ai: a graph drawn from *)
(* GraphDocs is reviewed, or a text is repaired, with any response of the  *)
(* completion service to the review call and to the repair call.           *)
(***************************************************************************)
RevInit ==
    /\ rev_pc = "start"
    /\ rev_in \in GraphDocs
    /\ rev_r = Unset /\ rev_rr = Unset
    /\ rev_out = EmptyDict
    /\ SanIdle /\ ValIdle /\ ModIdle /\ GenIdle

RevReview ==
    /\ rev_pc = "start"
    /\ \E r \in DocResponses : \E rr \in RepairResponses(r) :
          /\ rev_out' = validate_with_ai(rev_in, r, rr)
          /\ rev_r' = r
          /\ rev_rr' = IF r.kind = "garbage" THEN rr ELSE Unset
    /\ rev_pc' = "reviewed"
    /\ UNCHANGED <<rev_in, san_vars, val_vars, mod_vars, gen_vars>>

RevRepair ==
    /\ rev_pc = "start"
    /\ \E r \in DocResponses :
          /\ rev_out' = repair_json_with_ai(r)
          /\ rev_r' = r
    /\ rev_pc' = "repaired"
    /\ UNCHANGED <<rev_in, rev_rr, san_vars, val_vars, mod_vars, gen_vars>>

RevNext == RevReview \/ RevRepair

SpecRev == RevInit /\ [][RevNext]_vars

Bump(c, k, n) == [c EXCEPT ![k] = @ + n]

GenInit ==
    /\ pc = "Generating"
    /\ raw_args = Unset /\ workflow_json = Unset /\ validated = Unset
    /\ enhanced = Unset /\ returned = Unset
    /\ errors = 0 /\ rebuilt = FALSE /\ calls = NoCalls
    /\ struct_failures = 0 /\ all_empty = TRUE
    /\ SanIdle /\ ValIdle /\ ModIdle /\ RevIdle

\* lines 456-458: the exception reaches the outer handler, which raises
\* RuntimeError; nothing is returned
Fail ==
    /\ pc' = "Failed"
    /\ errors' = errors + 1

\* lines 386-409: the primary call and the choice of raw_args
Generate ==
    /\ pc = "Generating"
    /\ \E r \in PrimaryResponses :
          /\ calls' = Bump(calls, "primary", 1)
          /\ all_empty' = (all_empty /\ r.kind = "message"
                             /\ NoContent(r.fc) /\ NoContent(r.content))
          /\ IF r.kind = "error" \/ raw_args_of(r).kind = "raises"
             THEN Fail /\ UNCHANGED raw_args
             ELSE /\ raw_args' = raw_args_of(r)
                  /\ pc' = "Parsing"
                  /\ UNCHANGED errors
    /\ UNCHANGED <<workflow_json, validated, enhanced, returned, rebuilt, struct_failures>>
    /\ UNCHANGED <<san_vars, val_vars, mod_vars, rev_vars>>

\* lines 412-416, up to the call of repair_json_with_ai
Parse ==
    /\ pc = "Parsing"
    /\ IF raw_args.kind = "garbage"
       THEN pc' = "Recovery" /\ UNCHANGED workflow_json
       ELSE /\ workflow_json' = IF raw_args.kind = "json" THEN raw_args.val ELSE EmptyDict
            /\ pc' = "Validating"
    /\ UNCHANGED <<raw_args, validated, enhanced, returned, errors, rebuilt, calls,
                   struct_failures, all_empty>>
    /\ UNCHANGED <<san_vars, val_vars, mod_vars, rev_vars>>

\* line 416 and line 445: repair_json_with_ai on text that did not parse
Recover ==
    /\ pc = "Recovery"
    /\ \E r \in DocResponses :
          /\ workflow_json' = repair_json_with_ai(r)
          /\ all_empty' = (all_empty /\ NoContent(r))
    /\ calls' = Bump(calls, "repair", 1)
    /\ pc' = "Validating"
    /\ UNCHANGED <<raw_args, validated, enhanced, returned, errors, rebuilt, struct_failures>>
    /\ UNCHANGED <<san_vars, val_vars, mod_vars, rev_vars>>

\* line 420 and line 446: ensure_valid_workflow, and where its outcome leads
Validate ==
    /\ pc = "Validating"
    /\ \E r \in ValResponses :
          LET res == ensure_valid_workflow(workflow_json, Prompt, r)
          IN  /\ calls' = Bump(calls, "infer", res.calls)
              /\ all_empty' = (all_empty /\ (res.calls = 0 \/ NoContent(r)))
              /\ IF res.exc = "none"
                 THEN /\ validated' = res.wf
                      /\ workflow_json' = res.wf
                      /\ pc' = "Reviewing"
                      /\ UNCHANGED <<errors, struct_failures>>
                 ELSE IF res.exc = "ValueError"
                 THEN /\ struct_failures' = struct_failures + 1
                      /\ IF after_value_error(rebuilt) = "Failed"
                         THEN Fail
                         ELSE pc' = after_value_error(rebuilt) /\ UNCHANGED errors
                      /\ UNCHANGED <<validated, workflow_json>>
                 ELSE /\ Fail
                      /\ UNCHANGED <<validated, workflow_json, struct_failures>>
    /\ UNCHANGED <<raw_args, enhanced, returned, rebuilt>>
    /\ UNCHANGED <<san_vars, val_vars, mod_vars, rev_vars>>

\* lines 421-445: the rebuild call in the except ValueError handler
Rebuild ==
    /\ pc = "Rebuilding"
    /\ rebuilt' = TRUE
    /\ calls' = Bump(calls, "rebuild", 1)
    /\ \E r \in DocResponses :
          /\ all_empty' = (all_empty /\ NoContent(r))
          /\ IF r.kind = "error"
             THEN Fail /\ UNCHANGED workflow_json
             ELSE IF r.kind = "garbage"
             THEN pc' = "Recovery" /\ UNCHANGED <<workflow_json, errors>>
             ELSE /\ workflow_json' = IF NoContent(r) THEN Scaffold ELSE r.val
                  /\ pc' = "Validating"
                  /\ UNCHANGED errors
    /\ UNCHANGED <<raw_args, validated, enhanced, returned, struct_failures>>
    /\ UNCHANGED <<san_vars, val_vars, mod_vars, rev_vars>>

\* line 449: validate_with_ai on the validated graph
Review ==
    /\ pc = "Reviewing"
    /\ \E r \in DocResponses : \E rr \in RepairResponses(r) :
          /\ enhanced' = validate_with_ai(validated, r, rr)
          /\ calls' = Bump(Bump(calls, "review", 1), "repair",
                           IF r.kind = "garbage" THEN 1 ELSE 0)
          /\ all_empty' = (all_empty /\ NoContent(r))
    /\ pc' = "Linting"
    /\ UNCHANGED <<raw_args, workflow_json, validated, returned, errors, rebuilt,
                   struct_failures>>
    /\ UNCHANGED <<san_vars, val_vars, mod_vars, rev_vars>>

\* line 450: lint_code_nodes, with the review call it makes on a flagged graph
Lint ==
    /\ pc = "Linting"
    /\ IF lint_outcome(enhanced) = "raises"
       THEN Fail /\ UNCHANGED <<enhanced, calls, all_empty>>
       ELSE IF lint_outcome(enhanced) = "clean"
       THEN pc' = after_lint("clean") /\ UNCHANGED <<enhanced, calls, all_empty, errors>>
       ELSE /\ \E r \in DocResponses : \E rr \in RepairResponses(r) :
                  /\ enhanced' = validate_with_ai(enhanced, r, rr)
                  /\ calls' = Bump(Bump(calls, "review", 1), "repair",
                                   IF r.kind = "garbage" THEN 1 ELSE 0)
                  /\ all_empty' = (all_empty /\ NoContent(r))
            /\ pc' = after_lint("flagged")
            /\ UNCHANGED errors
    /\ UNCHANGED <<raw_args, workflow_json, validated, returned, rebuilt, struct_failures>>
    /\ UNCHANGED <<san_vars, val_vars, mod_vars, rev_vars>>

\* lines 451-454: modernize_code_nodes and the return
Modernize ==
    /\ pc = "Modernizing"
    /\ \E gens \in [DOMAIN Get(enhanced, "nodes", <<>>) -> GenResponses] :
          LET res == modernize_code_nodes(enhanced, gens)
          IN  /\ calls' = Bump(calls, "codegen", res.calls)
              /\ all_empty' = (all_empty /\ res.calls = 0)
              /\ IF res.exc = "none"
                 THEN /\ enhanced' = res.wf
                      /\ returned' = res.wf
                      /\ pc' = "Done"
                      /\ UNCHANGED errors
                 ELSE Fail /\ UNCHANGED <<enhanced, returned>>
    /\ UNCHANGED <<raw_args, workflow_json, validated, rebuilt, struct_failures>>
    /\ UNCHANGED <<san_vars, val_vars, mod_vars, rev_vars>>

Next ==
    \/ Generate \/ Parse \/ Recover \/ Validate \/ Rebuild \/ Review \/ Lint
    \/ Modernize

Init == GenInit

Spec == Init /\ [][Next]_vars

Stages ==
    {"Generating", "Parsing", "Recovery", "Validating", "Rebuilding", "Reviewing",
     "Linting", "Modernizing", "Done", "Failed"}

\* the run has neither returned nor raised
Running == pc \notin {"Done", "Failed"}

\* the interpreter goes on to the next statement: while the run has not
\* ended, control moves to another stage.  Every stage is a total function
\* of the state and of the responses, so Next is enabled exactly while
\* Running holds, and every step of Next changes pc.
Proceed == Running /\ pc' \in Stages

SpecLive == Init /\ [][Next]_vars /\ WF_pc(Proceed)

\* the links src -> dst of a connections map, as a set of pairs
Edges(connections) ==
    UNION { UNION { { <<connections[i].src, MainOf(connections[i])[b][j].node>> :
                        j \in { jj \in DOMAIN MainOf(connections[i])[b] :
                                  "node" \in DOMAIN MainOf(connections[i])[b][jj] } } :
                    b \in DOMAIN MainOf(connections[i]) } :
            i \in DOMAIN connections }

\* C1: every link src -> dst of the output of sanitize_connections has src
\* and dst among the names of the node list and src # dst; no source entry
\* and no link for a name outside the node list is in the output.
C1_OnlyValidEdges ==
    san_pc = "done" =>
        /\ \A i \in DOMAIN san_out : san_out[i].src \in valid_names(san_nodes)
        /\ \A i \in DOMAIN san_out : \A b \in DOMAIN MainOf(san_out[i]) :
               \A j \in DOMAIN MainOf(san_out[i])[b] :
                   LET l == MainOf(san_out[i])[b][j]
                   IN  /\ "node" \in DOMAIN l
                       /\ l.node \in valid_names(san_nodes)
                       /\ l.node # san_out[i].src

\* the input held a self-loop, a dangling link and an invalid source, and
\* something was kept
C1_Witness ==
    /\ san_pc = "done"
    /\ \E e \in Edges(san_connections) : e[1] = e[2] /\ e[1] \in valid_names(san_nodes)
    /\ \E e \in Edges(san_connections) :
           e[1] \in valid_names(san_nodes) /\ e[2] \notin valid_names(san_nodes)
    /\ \E i \in DOMAIN san_connections : san_connections[i].src \notin valid_names(san_nodes)
    /\ san_out # <<>>

\* C2: the output of sanitize_connections never holds both a link A -> B
\* and a link B -> A, in whichever branches they sit and whatever the
\* order of the sources.
C2_NoMutualPair ==
    san_pc = "done" =>
        \A e \in Edges(san_out) : <<e[2], e[1]>> \notin Edges(san_out)

\* the input held a mutual pair of two valid nodes, the second source
\* carrying its link in its second branch
C2_Witness ==
    /\ san_pc = "done"
    /\ \E i, k \in DOMAIN san_connections :
           /\ i < k
           /\ {san_connections[i].src, san_connections[k].src} \subseteq valid_names(san_nodes)
           /\ san_connections[i].src # san_connections[k].src
           /\ Len(MainOf(san_connections[i])) >= 1
           /\ \E j \in DOMAIN MainOf(san_connections[i])[1] :
                  LinkTargets(MainOf(san_connections[i])[1][j], san_connections[k].src)
           /\ Len(MainOf(san_connections[k])) = 2
           /\ \E j \in DOMAIN MainOf(san_connections[k])[2] :
                  LinkTargets(MainOf(san_connections[k])[2][j], san_connections[i].src)
    /\ Edges(san_out) # {}

\* the node types of the explored inputs that contain cron, webhook,
\* schedule or trigger when letter case is ignored
TriggerTyped(n) ==
    n.type \in {"n8n-nodes-base.cron", "n8n-nodes-base.Webhook",
                "n8n-nodes-base.scheduleTrigger"}
NotTriggerTyped(n) == ~TriggerTyped(n)
NamesOf(nodes) == [i \in DOMAIN nodes |-> nodes[i].name]

\* C4: when the input nodes hold a trigger-typed and a non-trigger node,
\* the nodes of the graph returned by ensure_valid_workflow have every
\* trigger-typed node before every other node, keep the input order inside
\* each group, and are a permutation of the input nodes.
C4_TriggersFirstStable ==
    ( /\ val_pc \in {"once", "twice"}
      /\ val_out.exc = "none"
      /\ \E i \in DOMAIN val_in.nodes : TriggerTyped(val_in.nodes[i])
      /\ \E i \in DOMAIN val_in.nodes : NotTriggerTyped(val_in.nodes[i]) )
    => LET in == val_in.nodes
           out == val_out.wf.nodes
       IN  /\ \A i, j \in DOMAIN out :
                  i < j => ~(NotTriggerTyped(out[i]) /\ TriggerTyped(out[j]))
           /\ NamesOf(SelectSeq(out, TriggerTyped)) = NamesOf(SelectSeq(in, TriggerTyped))
           /\ NamesOf(SelectSeq(out, NotTriggerTyped)) = NamesOf(SelectSeq(in, NotTriggerTyped))
           /\ Len(out) = Len(in)
           /\ \A i \in DOMAIN in :
                  Cardinality({ j \in DOMAIN out : /\ out[j].name = in[i].name
                                                   /\ out[j].type = in[i].type }) = 1

\* the input is [non-trigger, Webhook, cron] and the Webhook node, matched
\* only when case is ignored, has moved to the front
C4_Witness ==
    /\ val_pc = "once"
    /\ val_out.exc = "none"
    /\ Len(val_in.nodes) = 3
    /\ NotTriggerTyped(val_in.nodes[1])
    /\ val_in.nodes[2].type = "n8n-nodes-base.Webhook"
    /\ val_in.nodes[3].type = "n8n-nodes-base.cron"
    /\ NamesOf(val_out.wf.nodes) = <<"B", "C", "A">>

\* C5: applying ensure_valid_workflow to its own output changes nothing:
\* same nodes in the same order, same top-level fields, same connections.
C5_Idempotent ==
    (val_pc = "twice" /\ val_out2.exc = "none") => val_out2.wf = val_out.wf

\* C9: every node of the graph returned by ensure_valid_workflow has
\* non-null parameters, typeVersion and position.
C9_NodeFieldsNonNull ==
    (val_pc \in {"once", "twice"} /\ val_out.exc = "none") =>
        \A i \in DOMAIN val_out.wf.nodes :
            LET n == val_out.wf.nodes[i]
            IN  /\ "parameters" \in DOMAIN n /\ n.parameters # Null
                /\ "typeVersion" \in DOMAIN n /\ n.typeVersion # Null
                /\ "position" \in DOMAIN n /\ n.position # Null

\* the node types of the explored inputs that contain function or code
\* when letter case is ignored
ScriptingTyped(n) ==
    n.type \in {CODE_TYPE, FUNCTION_TYPE, "n8n-nodes-base.Code",
                "n8n-nodes-base.functionItem"}

\* C10: after modernize_code_nodes the jsCode of every scripting node holds
\* a return statement and none of the deprecated accessors $json,
\* $input.item, $item, [0].json, whatever the generation call returned; a
\* body that was a JSON document is not JSON-shaped in the end.
C10_ModernBodies ==
    (mod_pc = "done" /\ mod_out.exc = "none") =>
        \A i \in DOMAIN mod_in.nodes :
            ScriptingTyped(mod_in.nodes[i]) =>
                LET js == mod_out.wf.nodes[i].parameters.jsCode
                    before == first_code(Get(mod_in.nodes[i], "parameters", EmptyDict))
                IN  /\ "return" \in js.has
                    /\ js.has \cap {"$json", "$input.item", "$item", "[0].json"} = {}
                    /\ before.shape = "json" => js.shape # "json"

\* C3: in the graph generate_workflow returns, every link of connections
\* targets the name of a node of the returned nodes list.
C3_ReturnedLinksResolve ==
    pc = "Done" =>
        \A e \in Edges(Get(returned, "connections", <<>>)) :
            e[2] \in valid_names(Get(returned, "nodes", <<>>))

\* C6: when every response of the completion service is empty, the run
\* ends Failed, with exactly one RuntimeError raised and no graph returned.
C6_AllEmptyFails ==
    (all_empty /\ pc \in {"Done", "Failed"}) =>
        /\ pc = "Failed"
        /\ errors = 1
        /\ returned = Unset

\* every call of the run came back empty: the primary call, then the
\* rebuild call, and ensure_valid_workflow failed on {} and on the scaffold
C6_Witness ==
    /\ pc = "Failed"
    /\ all_empty
    /\ calls.primary = 1 /\ calls.rebuild = 1
    /\ workflow_json = Scaffold
    /\ errors = 1

\* C7: the run ends Failed only if the structured call, the JSON recovery
\* and the rebuild all yielded no usable content: no run in which
\* ensure_valid_workflow accepted a graph ends Failed.
C7_FailedOnlyWithoutContent ==
    pc = "Failed" => validated = Unset

\* C8: a ValueError of ensure_valid_workflow triggers the rebuild call
\* exactly once; a second ValueError ends the run Failed; no second rebuild
\* call is issued.
C8_RebuildExactlyOnce ==
    /\ calls.rebuild <= 1
    /\ struct_failures <= 2
    /\ struct_failures >= 1 => \/ pc = "Rebuilding" /\ calls.rebuild = 0
                               \/ calls.rebuild = 1
    /\ calls.rebuild = 1 => struct_failures >= 1
    /\ struct_failures = 2 => pc = "Failed"

\* the rebuilt graph failed validation again: two ValueError, one rebuild
\* call that returned a graph without nodes
C8_Witness ==
    /\ pc = "Failed"
    /\ struct_failures = 2
    /\ calls.rebuild = 1
    /\ workflow_json = [name |-> "W"]

\* the inference call was made and yielded nothing: it raised, had no
\* content, had content that does not parse, or parsed to an empty object
InferredNothing ==
    /\ val_r # Unset
    /\ \/ val_r.kind \in {"error", "none", "empty", "blank", "garbage"}
       \/ val_r.kind = "json" /\ val_r.val = <<>>

\* C11: when the input connections are absent, not a mapping or empty and
\* the inference yields nothing, the connections returned by
\* ensure_valid_workflow are exactly the chain over the returned nodes
\* (triggers first): node i has the single link {node: name of node i+1,
\* type: main, index: 0}, the last node has no entry, nothing else exists.
C11_FallbackChain ==
    ( /\ val_pc \in {"once", "twice"}
      /\ val_out.exc = "none"
      /\ \/ "connections" \notin DOMAIN val_in
         \/ val_in.connections = NotADict
         \/ val_in.connections = <<>>
      /\ InferredNothing )
    => LET out == val_out.wf.nodes
       IN  /\ NamesOf(out) = NamesOf(SelectSeq(val_in.nodes, TriggerTyped))
                               \o NamesOf(SelectSeq(val_in.nodes, NotTriggerTyped))
           /\ val_out.wf.connections =
                  [i \in 1..(Len(out) - 1) |->
                      [src |-> out[i].name,
                       edges |-> [main |-> << << [node |-> out[i + 1].name,
                                                 type |-> "main",
                                                 index |-> 0] >> >>]]]

\* [HTTP, Cron] without connections and with a failed inference gives the
\* single link Cron -> HTTP
C11_Witness ==
    /\ val_pc = "once"
    /\ val_out.exc = "none"
    /\ "connections" \notin DOMAIN val_in
    /\ val_r = Resp("error")
    /\ Len(val_in.nodes) = 2
    /\ val_in.nodes[1].type = HTTP_REQUEST
    /\ val_in.nodes[2].type = "n8n-nodes-base.cron"
    /\ Edges(val_out.wf.connections) = {<<"B", "A">>}

\* the number of links s -> d a connections map holds
CountLinks(connections, s, d) ==
    IF InOut(connections, s)
    THEN Len(SelectSeq(Flatten(MainOf(connections[IndexOf(connections, s)])),
                       LAMBDA l : LinkTargets(l, d)))
    ELSE 0

\* the pairs <<i, k>> of source positions of the input, i before k, whose
\* sources are valid names linked in both directions
MutualPairs ==
    { p \in (DOMAIN san_connections) \X (DOMAIN san_connections) :
        /\ p[1] < p[2]
        /\ san_connections[p[1]].src \in valid_names(san_nodes)
        /\ san_connections[p[2]].src \in valid_names(san_nodes)
        /\ CountLinks(san_connections, san_connections[p[1]].src,
                      san_connections[p[2]].src) > 0
        /\ CountLinks(san_connections, san_connections[p[2]].src,
                      san_connections[p[1]].src) > 0 }

\* C12: of a mutual pair between two valid nodes, sanitize_connections keeps
\* every link of the source iterated first and removes every link of the
\* source iterated second: exactly one direction is left, the forward one.
C12_ForwardKept ==
    san_pc = "done" =>
        \A p \in MutualPairs :
            LET a == san_connections[p[1]].src
                b == san_connections[p[2]].src
            IN  /\ CountLinks(san_out, a, b) = CountLinks(san_connections, a, b)
                /\ CountLinks(san_out, b, a) = 0

\* the source iterated first is the one the node list names last; its link
\* is in the output and the reverse link is not
C12_Witness ==
    /\ san_pc = "done"
    /\ san_nodes[1].name = "B"
    /\ \E p \in MutualPairs :
           /\ san_connections[p[1]].src = "A"
           /\ san_connections[p[2]].src = "B"
    /\ <<"A", "B">> \in Edges(san_out)
    /\ <<"B", "A">> \notin Edges(san_out)

\* the review failed altogether: the call raised, returned no content, or
\* returned text that does not parse and that the repair call did not
\* turn into JSON
ReviewFailed ==
    \/ rev_r.kind = "error"
    \/ rev_r.kind \in {"none", "empty", "blank"}
    \/ rev_r.kind = "garbage" /\ rev_rr.kind # "json"

\* C13: when the review fails altogether, validate_with_ai returns the
\* graph it was given, unchanged.
C13_FailedReviewKeepsGraph ==
    (rev_pc = "reviewed" /\ ReviewFailed) => rev_out = rev_in

\* C14: repair_json_with_ai returns the parsed document when the repair
\* call returns JSON, and exactly {name: "AI Generated Workflow", nodes: [],
\* connections: {}} when the call raises, has no content or does not parse.
C14_RepairOrScaffold ==
    rev_pc = "repaired" =>
        rev_out = IF rev_r.kind = "json" THEN rev_r.val
                  ELSE [name |-> "AI Generated Workflow", nodes |-> <<>>,
                        connections |-> <<>>]

\* the repair call returned text that does not parse and the scaffold came
\* back
C14_Witness ==
    /\ rev_pc = "repaired"
    /\ rev_r.kind = "garbage"
    /\ rev_out.name = "AI Generated Workflow"
    /\ rev_out.nodes = <<>>

\* the scripting nodes of a graph, none when the value is not a graph
ScriptingCount(wf) ==
    IF wf = Unset \/ wf = NotAGraph THEN 0
    ELSE Cardinality({ i \in DOMAIN Get(wf, "nodes", <<>>) :
                          ScriptingTyped(Get(wf, "nodes", <<>>)[i]) })

\* C15: a run of generate_workflow issues at most one primary call, at most
\* one rebuild call, the unconditional review and at most one more review
\* from the lint pass, at most one generation call per scripting node, and
\* it ends in Done or Failed.
C15_BoundedAndTerminates ==
    /\ [](/\ calls.primary <= 1
          /\ calls.rebuild <= 1
          /\ calls.review <= 2
          /\ pc \in {"Generating", "Parsing", "Recovery", "Validating", "Rebuilding",
                      "Reviewing"} => calls.review = 0
          /\ pc = "Linting" => calls.review = 1
          /\ calls.codegen <= ScriptingCount(enhanced))
    /\ <>(pc \in {"Done", "Failed"})

\* a run that used every extra attempt: the rebuild, the review of the lint
\* pass and a generation call, and still ended Done
C15_Witness ==
    /\ pc = "Done"
    /\ calls.primary = 1
    /\ calls.rebuild = 1
    /\ calls.review = 2
    /\ calls.codegen = 1

\* a code body that uses a legacy idiom or is a JSON document
LegacyBody(t) ==
    \/ t.has \cap {"$json", "$input.item", "$item", "[0].json"} # {}
    \/ t.shape = "json"

\* a scripting node with such a body under jsCode, functionCode or code
NeedsRefactor(n) ==
    /\ ScriptingTyped(n)
    /\ "parameters" \in DOMAIN n /\ n.parameters # Null
    /\ \E k \in {"jsCode", "functionCode", "code"} \cap DOMAIN n.parameters :
           LegacyBody(n.parameters[k])

\* C16: a graph that reaches modernize_code_nodes without a second review
\* call (it is then the graph that entered lint_code_nodes) has no
\* scripting node whose body, under jsCode, functionCode or code, uses a
\* legacy idiom or is a JSON document.
C16_LegacyBodiesReviewed ==
    (pc = "Modernizing" /\ calls.review = 1 /\ enhanced # NotAGraph) =>
        \A i \in DOMAIN Get(enhanced, "nodes", <<>>) :
            ~NeedsRefactor(Get(enhanced, "nodes", <<>>)[i])

\* C17: after modernize_code_nodes the jsCode of every scripting node holds
\* a return statement and the call $input.all(), whether the body is the
\* original one or a regenerated one.
C17_ReturnAndBatchAll ==
    (mod_pc = "done" /\ mod_out.exc = "none") =>
        \A i \in DOMAIN mod_in.nodes :
            ScriptingTyped(mod_in.nodes[i]) =>
                LET js == mod_out.wf.nodes[i].parameters.jsCode
                IN  "return" \in js.has /\ "$input.all()" \in js.has

\* C18: after modernize_code_nodes every node whose type contains function
\* or code, letter case ignored, has the type n8n-nodes-base.code exactly,
\* its code under jsCode alone, the keys functionCode and code gone, and a
\* language; every other node is as it was.
C18_CanonicalScriptingNodes ==
    (mod_pc = "done" /\ mod_out.exc = "none") =>
        \A i \in DOMAIN mod_in.nodes :
            LET before == mod_in.nodes[i]
                after == mod_out.wf.nodes[i]
            IN  IF ScriptingTyped(before)
                THEN /\ after.type = "n8n-nodes-base.code"
                     /\ "jsCode" \in DOMAIN after.parameters
                     /\ "functionCode" \notin DOMAIN after.parameters
                     /\ "code" \notin DOMAIN after.parameters
                     /\ "language" \in DOMAIN after.parameters
                ELSE after = before

\* the branches of an entry that hold a link
NonEmptyBranches(main) == SelectSeq(main, LAMBDA b : b # <<>>)

\* the link x -> y may be removed: x or y names no node, x = y, or the
\* input holds a link y -> x from a valid source
MayRemove(x, y) ==
    \/ x \notin valid_names(san_nodes)
    \/ y \notin valid_names(san_nodes)
    \/ x = y
    \/ CountLinks(san_connections, y, x) > 0

\* C19: sanitize_connections adds no link, keeps every link x -> y unless x
\* or y names no node, x = y or a link y -> x is present, and keeps the
\* links of each branch in their order.
C19_OnlyListedRemovals ==
    san_pc = "done" =>
        /\ \A x, y \in AllNames :
               /\ CountLinks(san_out, x, y) <= CountLinks(san_connections, x, y)
               /\ ~MayRemove(x, y) =>
                      CountLinks(san_out, x, y) = CountLinks(san_connections, x, y)
        /\ \A i \in DOMAIN san_out :
               LET x == san_out[i].src
                   before == MainOf(san_connections[IndexOf(san_connections, x)])
                   kept == [b \in DOMAIN before |->
                               SelectSeq(before[b],
                                         LAMBDA l : CountLinks(san_out, x, l.node) > 0)]
               IN  NonEmptyBranches(MainOf(san_out[i])) = NonEmptyBranches(kept)

\* the cycle A -> B, B -> C, C -> A, which holds no mutual pair, comes out
\* whole
C19_Witness ==
    /\ san_pc = "done"
    /\ Edges(san_connections) = {<<"A", "B">>, <<"B", "C">>, <<"C", "A">>}
    /\ Edges(san_out) = {<<"A", "B">>, <<"B", "C">>, <<"C", "A">>}

\* C20: on a graph whose name is absent or empty, or whose nodes list is
\* absent or empty, ensure_valid_workflow raises ValueError, has made no
\* inference call, and leaves the graph as it was.
C20_StructuralErrorFirst ==
    ( /\ val_pc \in {"once", "twice"}
      /\ \/ "name" \notin DOMAIN val_in
         \/ val_in.name = ""
         \/ "nodes" \notin DOMAIN val_in
         \/ val_in.nodes = <<>> )
    => /\ val_out.exc = "ValueError"
       /\ val_out.wf = val_in
       /\ val_out.calls = 0
       /\ val_r = Unset

\* a named graph with an empty nodes list and no connections, which would
\* otherwise have gone to the inference call
C20_Witness ==
    /\ val_pc = "once"
    /\ "name" \in DOMAIN val_in /\ val_in.name = "W"
    /\ "nodes" \in DOMAIN val_in /\ val_in.nodes = <<>>
    /\ "connections" \notin DOMAIN val_in
    /\ "id" \notin DOMAIN val_in
    /\ val_out.exc = "ValueError"
    /\ val_out.wf = val_in

\* C21: every entry of the output of sanitize_connections has a main port
\* with at least one branch, and every branch holds at least one link.
C21_NoEmptyBranch ==
    san_pc = "done" =>
        \A i \in DOMAIN san_out :
            /\ "main" \in DOMAIN san_out[i].edges
            /\ san_out[i].edges.main # <<>>
            /\ \A b \in DOMAIN san_out[i].edges.main : san_out[i].edges.main[b] # <<>>

\* C22: the graph generate_workflow returns has a non-empty name and a
\* non-empty nodes list.
C22_ReturnedGraphComplete ==
    pc = "Done" =>
        /\ "name" \in DOMAIN returned /\ returned.name # ""
        /\ "nodes" \in DOMAIN returned /\ returned.nodes # <<>>

====
